---------------------------- MODULE Spec2Model ----------------------------
(***************************************************************************)
(* The training-and-validation drivers and the single-example inference of *)
(* 5-inference-and-validation.ipynb, statement by statement.               *)
(*                                                                         *)
(*   cell 13 (lines 257-289)  accuracy-only loop, model without dropout    *)
(*   cell 17 (lines 469-510)  extended loop, model with dropout            *)
(*   cell 19 (lines 547-562)  inference on one example                     *)
(*                                                                         *)
(* Every training cell builds its own model, criterion and optimizer, so a *)
(* run starts in either training cell; cell 19 follows cell 17, whose      *)
(* model it uses.  The tensor library is outside the repository: tensors   *)
(* are small integer vectors, floats are exact rationals <<num, den>>, and *)
(* the network is a one-unit stand-in whose output depends on the          *)
(* parameters, on the input and, in training mode, on the dropout mask.    *)
(***************************************************************************)
EXTENDS Integers, Sequences, FiniteSets

VARIABLES
    cell,            \* the notebook cell being run: 13, 17 or 19
    pc,              \* the statement about to run ("error": an exception ended the cell)
    train_n,         \* examples in trainset
    test_n,          \* examples in testset
    fixed,           \* the batches testloader yields in every epoch, << >> when it shuffles
    tie_pick,        \* the tensor library's topk: of the classes that tie for the largest
                     \* value, the one it returns
    e,               \* epochs completed at "for_e", the epoch's index inside the body
    train_pos,       \* examples the trainloader iterator has yielded
    test_pos,        \* examples the testloader iterator has yielded
    images,          \* the current batch: [x: features per example, w: values per image]
    labels,          \* the current batch's labels
    training,        \* model.training, the mode flag (TRUE: Training, FALSE: Evaluation)
    grad_enabled,    \* torch.is_grad_enabled()
    no_grad_prev,    \* what the torch.no_grad() context restores on exit
    params,          \* the model's parameters
    grad,            \* the batches <<epoch, index>> whose backward() is summed in .grad
    opt_step,        \* the optimizer's count of updates applied
    log_ps,          \* per example, the log-probability of every class
    requires_grad,   \* whether log_ps carries an autograd graph
    loss,
    running_loss,
    accuracy_accum,
    loss_accum,
    ps,
    top_class,
    equals,
    stdout,          \* what the running cell has printed: the count of its Accuracy
                     \* and Loss lines and the value of the latest of each
    img,             \* cell 19: the one image taken from the batch
    output,          \* cell 19: the model's output for img
    shown,           \* what helper.view_classify was handed (cell 19)
    ops,             \* observation: the operations applied to the current training batch
    val_accs,        \* observation: <<matches, size>> of each validation batch of the epoch
    val_losses       \* observation: the loss of each validation batch of the epoch

vars == <<cell, pc, train_n, test_n, fixed, tie_pick, e, train_pos, test_pos, images, labels,
          training, grad_enabled, no_grad_prev, params, grad, opt_step, log_ps,
          requires_grad, loss, running_loss, accuracy_accum, loss_accum, ps,
          top_class, equals, stdout, img, output, shown, ops, val_accs, val_losses>>

----------------------------------------------------------------------------
(* Bounds of the model. *)

\* epochs = 30 in the notebook; the loop is the same for any count.
epochs == 2

\* The largest trainset and testset, in examples.
MaxTrain == 3

MaxTest == 3

\* batch_size=64 in the notebook; 2 keeps a smaller final batch within MaxTest.
batch_size == 2

\* nn.Linear(64, 10): ten classes in the notebook, two here.
NumClasses == 2

\* nn.Linear(784, 256): the values fc1 takes per image.
InFeatures == 784

Classes == 0 .. (NumClasses - 1)

\* What one image is to the stand-in network: the activation of its hidden unit.
Features == {0, 1}

----------------------------------------------------------------------------
(* Exact rationals <<num, den>>, den > 0, in lowest terms. *)

RECURSIVE GCD(_, _)
GCD(a, b) == IF b = 0 THEN a ELSE GCD(b, a % b)

Rat(n, d) == IF n = 0 THEN <<0, 1>> ELSE <<n \div GCD(n, d), d \div GCD(n, d)>>

RatAdd(a, b) == Rat(a[1] * b[2] + b[1] * a[2], a[2] * b[2])

RatMul(a, k) == Rat(a[1] * k, a[2])

RatDiv(a, k) == Rat(a[1], a[2] * k)

RatLeq(a, b) == a[1] * b[2] <= b[1] * a[2]

RECURSIVE RatSum(_)
RatSum(s) == IF s = << >> THEN <<0, 1>> ELSE RatAdd(Rat(s[1][1], s[1][2]), RatSum(Tail(s)))

RECURSIVE SumSeq(_)
SumSeq(s) == IF s = << >> THEN 0 ELSE s[1] + SumSeq(Tail(s))

Min(a, b) == IF a <= b THEN a ELSE b

MaxOf(v) == CHOOSE m \in {v[i] : i \in DOMAIN v} : \A i \in DOMAIN v : v[i] <= m

----------------------------------------------------------------------------
(* The data loaders. *)

\* len(loader): drop_last is off, so the last batch may be smaller.
LoaderLen(n) == (n + batch_size - 1) \div batch_size

\* The size of the batch an iterator at position pos yields next.
NextSize(n, pos) == Min(batch_size, n - pos)

GoodBatches(n) ==
    {[x |-> xs, w |-> InFeatures, y |-> ys] :
        xs \in [1 .. n -> Features], ys \in [1 .. n -> Classes]}

\* The malformed batches: images of the wrong width, one label too many.
BadBatches(n) ==
    {[x |-> [i \in 1 .. n |-> 0], w |-> InFeatures - 1, y |-> [i \in 1 .. n |-> 0]],
     [x |-> [i \in 1 .. n |-> 0], w |-> InFeatures, y |-> [i \in 1 .. n + 1 |-> 0]]}

Batches(n) == GoodBatches(n) \cup BadBatches(n)

\* A fixed validation source: its batches in order, all full but the last.
RECURSIVE FixedSources(_)
FixedSources(n) ==
    IF n = 0 THEN {<< >>}
    ELSE {<<b>> \o rest : b \in Batches(Min(batch_size, n)),
                          rest \in FixedSources(n - Min(batch_size, n))}

----------------------------------------------------------------------------
(* The model, the loss and the tensor operations. *)

\* Whether the model of the cell has dropout layers (cell 7 has none, cell 16 has).
HasDropout(c) == c # 13

\* The dropout masks a forward pass may draw: none unless in training mode.
Masks(c, mode, n) ==
    IF HasDropout(c) /\ mode THEN [1 .. n -> BOOLEAN] ELSE {[i \in 1 .. n |-> FALSE]}

Logit(p, h, c) == (h * (c + p)) % NumClasses

\* F.log_softmax: a shift of the logits that keeps their order.
LogSoftmax(z) == [c \in DOMAIN z |-> z[c] - MaxOf(z)]

\* Classifier.forward on the features xs with dropout mask m.
Forward(p, xs, m) ==
    [i \in 1 .. Len(xs) |->
        LogSoftmax([c \in 1 .. NumClasses |->
            Logit(p, IF m[i] THEN 0 ELSE xs[i], c - 1)])]

\* torch.exp, in units of 2^-(NumClasses-1).
Exp(v) == 2 ^ (v + NumClasses - 1)

ExpAll(lp) == [i \in DOMAIN lp |-> [c \in DOMAIN lp[i] |-> Exp(lp[i][c])]]

\* The classes at which the row v has its largest value.
ArgMax(v) == {c \in Classes : v[c + 1] = MaxOf(v)}

\* The code leaves the choice among equal values to the tensor library, which
\* promises no order among them: any rule that picks one of the tied classes,
\* the same one whenever the same classes tie.
TiePicks ==
    {f \in [{S \in SUBSET Classes : Cardinality(S) > 1} -> Classes] :
        \A S \in DOMAIN f : f[S] \in S}

\* Mutant of Topk: the smallest value is taken, as with largest=False.
TopkSmallest(p) ==
    [i \in DOMAIN p |->
        CHOOSE c \in Classes : \A d \in Classes : p[i][c + 1] <= p[i][d + 1]]

\* ps.topk(1, dim=1): per example the index of the largest value.
Topk(p) ==
    [i \in DOMAIN p |->
        IF Cardinality(ArgMax(p[i])) > 1 THEN tie_pick[ArgMax(p[i])]
        ELSE CHOOSE c \in ArgMax(p[i]) : TRUE]

\* nn.NLLLoss: the mean over the batch of minus the true class's log-probability.
NLLLoss(lp, ys) == Rat(SumSeq([i \in DOMAIN lp |-> 0 - lp[i][ys[i] + 1]]), Len(lp))

\* top_class == labels.view(*top_class.shape)
Equals(tc, ys) == [i \in DOMAIN tc |-> IF tc[i] = ys[i] THEN 1 ELSE 0]

\* Mutant of Mean: the matches are summed and not divided by their count.
MeanAsSum(eq) == Rat(SumSeq(eq), 1)

\* torch.mean(equals.type(torch.FloatTensor))
Mean(eq) == Rat(SumSeq(eq), Len(eq))

\* optimizer.step(): the parameters move by what .grad holds.
Update(p, g) == (p + Len(g)) % NumClasses

----------------------------------------------------------------------------
(* The state after the cell's first lines (257-264, 469-476): a fresh model *)
(* in training mode, gradient tracking on, nothing printed.                 *)

None == << >>

Zero == <<0, 1>>

NoOutput == [accuracy_lines |-> 0, loss_lines |-> 0, accuracy |-> None, loss |-> None]

Start ==
    /\ cell \in {13, 17}
    /\ pc = "for_e"
    /\ tie_pick \in TiePicks
    /\ e = 0
    /\ train_pos = 0
    /\ test_pos = 0
    /\ images = None
    /\ labels = None
    /\ training = TRUE
    /\ grad_enabled = TRUE
    /\ no_grad_prev = TRUE
    /\ params \in Classes
    /\ grad = << >>
    /\ opt_step = 0
    /\ log_ps = None
    /\ requires_grad = FALSE
    /\ loss = None
    /\ running_loss = Zero
    /\ accuracy_accum = Zero
    /\ loss_accum = Zero
    /\ ps = None
    /\ top_class = None
    /\ equals = None
    /\ stdout = NoOutput
    /\ img = None
    /\ output = None
    /\ shown = None
    /\ ops = << >>
    /\ val_accs = << >>
    /\ val_losses = << >>

\* The datasets and the loaders of cell 2 (lines 34-38).
InitWith(sources) ==
    /\ train_n \in 0 .. MaxTrain
    /\ test_n \in 0 .. MaxTest
    /\ fixed \in sources[test_n]
    /\ Start

\* shuffle=True: the loaders draw their batches anew in every epoch.
Init == InitWith([n \in 0 .. MaxTest |-> {<< >>}])

data == <<train_n, test_n, fixed, tie_pick>>
iters == <<train_pos, test_pos>>
batch == <<images, labels>>
autograd == <<grad_enabled, no_grad_prev, requires_grad>>
optim == <<params, grad, opt_step>>
temps == <<log_ps, loss, ps, top_class, equals>>
accums == <<running_loss, accuracy_accum, loss_accum>>
inference == <<img, output, shown>>
observed == <<ops, val_accs, val_losses>>

\* The batches a loader over n examples has yielded at position pos.
Yielded(pos) == LoaderLen(pos)

\* Mutant of Raise: the exception leaves the with block without its exit running.
RaiseKeepsNoGrad(in_no_grad) ==
    /\ pc' = "error"
    /\ grad_enabled' = grad_enabled

\* An exception leaves the cell; inside `with torch.no_grad()` the context's
\* exit runs first and restores gradient tracking.
Raise(in_no_grad) ==
    /\ pc' = "error"
    /\ grad_enabled' = IF in_no_grad THEN no_grad_prev ELSE grad_enabled

----------------------------------------------------------------------------
(* The training pass, lines 265-276 and 477-488. *)

\* for e in range(epochs): running_loss = 0
ForEpoch ==
    /\ cell \in {13, 17}
    /\ pc = "for_e"
    /\ e < epochs
    /\ running_loss' = Zero
    /\ val_accs' = << >>
    /\ val_losses' = << >>
    /\ pc' = "train_iter"
    /\ UNCHANGED <<cell, data, e, iters, batch, training, autograd, optim, temps,
                   accuracy_accum, loss_accum, stdout, inference, ops>>

\* Mutant of ForEpochDone: the loop is over range(epochs - 1).
ForEpochDoneEarly ==
    /\ cell \in {13, 17}
    /\ pc = "for_e"
    /\ e = epochs - 1
    /\ pc' = "done"
    /\ UNCHANGED <<cell, data, e, iters, batch, training, autograd, optim, temps,
                   accums, stdout, inference, observed>>

\* range(epochs) is exhausted: the cell ends.
ForEpochDone ==
    /\ cell \in {13, 17}
    /\ pc = "for_e"
    /\ e = epochs
    /\ pc' = "done"
    /\ UNCHANGED <<cell, data, e, iters, batch, training, autograd, optim, temps,
                   accums, stdout, inference, observed>>

\* for images, labels in trainloader: the iterator is made
TrainIter ==
    /\ pc = "train_iter"
    /\ train_pos' = 0
    /\ pc' = "train_for"
    /\ UNCHANGED <<cell, data, e, test_pos, batch, training, autograd, optim, temps,
                   accums, stdout, inference, observed>>

\* ... the iterator yields the next minibatch
TrainNext ==
    /\ pc = "train_for"
    /\ train_pos < train_n
    /\ \E b \in Batches(NextSize(train_n, train_pos)) :
        /\ images' = [x |-> b.x, w |-> b.w]
        /\ labels' = b.y
    /\ train_pos' = train_pos + NextSize(train_n, train_pos)
    /\ ops' = << >>
    /\ pc' = "zero_grad"
    /\ UNCHANGED <<cell, data, e, test_pos, training, autograd, optim, temps,
                   accums, stdout, inference, val_accs, val_losses>>

\* Mutant of TrainExhausted: the else branch is skipped, as after a break.
TrainExhaustedSkipsElse ==
    /\ pc = "train_for"
    /\ train_pos = train_n
    /\ e' = e + 1
    /\ pc' = "for_e"
    /\ UNCHANGED <<cell, data, iters, batch, training, autograd, optim, temps,
                   accums, stdout, inference, observed>>

\* ... the iterator is exhausted: the loop's else branch runs
TrainExhausted ==
    /\ pc = "train_for"
    /\ train_pos = train_n
    /\ pc' = "else"
    /\ UNCHANGED <<cell, data, e, iters, batch, training, autograd, optim, temps,
                   accums, stdout, inference, observed>>

\* Mutant of ZeroGrad: .grad is not cleared.
ZeroGradKeeps ==
    /\ pc = "zero_grad"
    /\ ops' = Append(ops, "zero_grad")
    /\ pc' = "forward"
    /\ UNCHANGED <<cell, data, e, iters, batch, training, autograd, optim,
                   temps, accums, stdout, inference, val_accs, val_losses>>

\* optimizer.zero_grad()
ZeroGrad ==
    /\ pc = "zero_grad"
    /\ grad' = << >>
    /\ ops' = Append(ops, "zero_grad")
    /\ pc' = "forward"
    /\ UNCHANGED <<cell, data, e, iters, batch, training, autograd, params, opt_step,
                   temps, accums, stdout, inference, val_accs, val_losses>>

\* Mutant of TrainForward: a batch the model cannot take is skipped, as by a
\* try/except around the body with a continue.
TrainForwardSkipsBad ==
    /\ pc = "forward"
    /\ \/ /\ images.w = InFeatures
          /\ \E m \in Masks(cell, training, Len(images.x)) :
                log_ps' = Forward(params, images.x, m)
          /\ requires_grad' = grad_enabled
          /\ ops' = Append(ops, "forward")
          /\ pc' = "criterion"
       \/ /\ images.w # InFeatures
          /\ pc' = "train_for"
          /\ UNCHANGED <<log_ps, requires_grad, ops>>
    /\ UNCHANGED <<cell, data, e, iters, batch, training, grad_enabled, no_grad_prev,
                   optim, loss, ps, top_class, equals, accums, stdout, inference,
                   val_accs, val_losses>>

\* log_ps = model(images)
TrainForward ==
    /\ pc = "forward"
    /\ \/ /\ images.w = InFeatures
          /\ \E m \in Masks(cell, training, Len(images.x)) :
                log_ps' = Forward(params, images.x, m)
          /\ requires_grad' = grad_enabled
          /\ ops' = Append(ops, "forward")
          /\ pc' = "criterion"
          /\ UNCHANGED <<grad_enabled>>
       \/ /\ images.w # InFeatures
          /\ Raise(FALSE)
          /\ UNCHANGED <<log_ps, requires_grad, ops>>
    /\ UNCHANGED <<cell, data, e, iters, batch, training, no_grad_prev, optim,
                   loss, ps, top_class, equals, accums, stdout, inference,
                   val_accs, val_losses>>

\* loss = criterion(log_ps, labels)
TrainCriterion ==
    /\ pc = "criterion"
    /\ \/ /\ Len(labels) = Len(log_ps)
          /\ loss' = NLLLoss(log_ps, labels)
          /\ ops' = Append(ops, "criterion")
          /\ pc' = "backward"
          /\ UNCHANGED <<grad_enabled>>
       \/ /\ Len(labels) # Len(log_ps)
          /\ Raise(FALSE)
          /\ UNCHANGED <<loss, ops>>
    /\ UNCHANGED <<cell, data, e, iters, batch, training, no_grad_prev, requires_grad,
                   optim, log_ps, ps, top_class, equals, accums, stdout, inference,
                   val_accs, val_losses>>

\* loss.backward(): the batch's gradient is added to .grad; without an autograd
\* graph it raises.
Backward ==
    /\ pc = "backward"
    /\ \/ /\ requires_grad
          /\ grad' = Append(grad, <<e, Yielded(train_pos)>>)
          /\ ops' = Append(ops, "backward")
          /\ pc' = "step"
          /\ UNCHANGED <<grad_enabled>>
       \/ /\ ~requires_grad
          /\ Raise(FALSE)
          /\ UNCHANGED <<grad, ops>>
    /\ UNCHANGED <<cell, data, e, iters, batch, training, no_grad_prev, requires_grad,
                   params, opt_step, temps, accums, stdout, inference,
                   val_accs, val_losses>>

\* optimizer.step()
OptimizerStep ==
    /\ pc = "step"
    /\ params' = Update(params, grad)
    /\ opt_step' = opt_step + 1
    /\ ops' = Append(ops, "step")
    /\ pc' = "running_loss"
    /\ UNCHANGED <<cell, data, e, iters, batch, training, autograd, grad, temps,
                   accums, stdout, inference, val_accs, val_losses>>

\* running_loss += loss.item(); the body ends and its bindings, which no later
\* statement reads before it rebinds them, are forgotten.
RunningLoss ==
    /\ pc = "running_loss"
    /\ running_loss' = RatAdd(running_loss, loss)
    /\ ops' = Append(ops, "running_loss")
    /\ images' = None
    /\ labels' = None
    /\ log_ps' = None
    /\ loss' = None
    /\ requires_grad' = FALSE
    /\ pc' = "train_for"
    /\ UNCHANGED <<cell, data, e, iters, training, grad_enabled, no_grad_prev, optim,
                   ps, top_class, equals, accuracy_accum, loss_accum, stdout,
                   inference, val_accs, val_losses>>

----------------------------------------------------------------------------
(* The validation pass, lines 278-289 and 490-510. *)

\* Mutant of Else: accuracy_accum is set once, before the loop, and never again.
ElseKeepsAccuracy ==
    /\ pc = "else"
    /\ loss_accum' = IF cell = 17 THEN Zero ELSE loss_accum
    /\ pc' = "no_grad"
    /\ UNCHANGED <<cell, data, e, iters, batch, training, autograd, optim, temps,
                   running_loss, accuracy_accum, stdout, inference, observed>>

\* else: accuracy_accum = 0 (and, in cell 17, loss_accum = 0)
Else ==
    /\ pc = "else"
    /\ accuracy_accum' = Zero
    /\ loss_accum' = IF cell = 17 THEN Zero ELSE loss_accum
    /\ pc' = "no_grad"
    /\ UNCHANGED <<cell, data, e, iters, batch, training, autograd, optim, temps,
                   running_loss, stdout, inference, observed>>

\* with torch.no_grad(): the context is entered
NoGradEnter ==
    /\ pc = "no_grad"
    /\ no_grad_prev' = grad_enabled
    /\ grad_enabled' = FALSE
    /\ pc' = IF cell = 17 THEN "model_eval" ELSE "test_iter"
    /\ UNCHANGED <<cell, data, e, iters, batch, training, requires_grad, optim, temps,
                   accums, stdout, inference, observed>>

\* Mutant of ModelEval: the call is left out.
ModelEvalSkipped ==
    /\ pc = "model_eval"
    /\ pc' = "test_iter"
    /\ UNCHANGED <<cell, data, e, iters, batch, training, autograd, optim, temps,
                   accums, stdout, inference, observed>>

\* model.eval()
ModelEval ==
    /\ pc = "model_eval"
    /\ training' = FALSE
    /\ pc' = "test_iter"
    /\ UNCHANGED <<cell, data, e, iters, batch, autograd, optim, temps,
                   accums, stdout, inference, observed>>

\* for images, labels in testloader: the iterator is made
TestIter ==
    /\ pc = "test_iter"
    /\ test_pos' = 0
    /\ pc' = "test_for"
    /\ UNCHANGED <<cell, data, e, train_pos, batch, training, autograd, optim, temps,
                   accums, stdout, inference, observed>>

\* The batch testloader yields at position pos: drawn anew when it shuffles.
TestBatches(pos) ==
    IF fixed = << >> THEN Batches(NextSize(test_n, pos)) ELSE {fixed[Yielded(pos) + 1]}

\* ... the iterator yields the next minibatch
TestNext ==
    /\ pc = "test_for"
    /\ test_pos < test_n
    /\ \E b \in TestBatches(test_pos) :
        /\ images' = [x |-> b.x, w |-> b.w]
        /\ labels' = b.y
    /\ test_pos' = test_pos + NextSize(test_n, test_pos)
    /\ pc' = IF cell = 17 THEN "val_forward" ELSE "forward_exp"
    /\ UNCHANGED <<cell, data, e, train_pos, training, autograd, optim, temps,
                   accums, stdout, inference, observed>>

\* ... the iterator is exhausted
TestExhausted ==
    /\ pc = "test_for"
    /\ test_pos = test_n
    /\ pc' = IF cell = 17 THEN "model_train" ELSE "no_grad_exit"
    /\ UNCHANGED <<cell, data, e, iters, batch, training, autograd, optim, temps,
                   accums, stdout, inference, observed>>

\* log_ps = model(images)   (cell 17)
ValForward ==
    /\ pc = "val_forward"
    /\ \/ /\ images.w = InFeatures
          /\ \E m \in Masks(cell, training, Len(images.x)) :
                log_ps' = Forward(params, images.x, m)
          /\ requires_grad' = grad_enabled
          /\ pc' = "val_criterion"
          /\ UNCHANGED <<grad_enabled>>
       \/ /\ images.w # InFeatures
          /\ Raise(TRUE)
          /\ UNCHANGED <<log_ps, requires_grad>>
    /\ UNCHANGED <<cell, data, e, iters, batch, training, no_grad_prev, optim,
                   loss, ps, top_class, equals, accums, stdout, inference, observed>>

\* Mutant of ValCriterion: loss_accum += criterion(log_ps, labels).
ValCriterionAdds ==
    /\ pc = "val_criterion"
    /\ \/ /\ Len(labels) = Len(log_ps)
          /\ loss_accum' = RatAdd(loss_accum, NLLLoss(log_ps, labels))
          /\ val_losses' = Append(val_losses, NLLLoss(log_ps, labels))
          /\ pc' = "exp"
          /\ UNCHANGED <<grad_enabled>>
       \/ /\ Len(labels) # Len(log_ps)
          /\ Raise(TRUE)
          /\ UNCHANGED <<loss_accum, val_losses>>
    /\ UNCHANGED <<cell, data, e, iters, batch, training, no_grad_prev, requires_grad,
                   optim, temps, running_loss, accuracy_accum, stdout, inference,
                   ops, val_accs>>

\* loss_accum = criterion(log_ps, labels)   (cell 17)
ValCriterion ==
    /\ pc = "val_criterion"
    /\ \/ /\ Len(labels) = Len(log_ps)
          /\ loss_accum' = NLLLoss(log_ps, labels)
          /\ val_losses' = Append(val_losses, NLLLoss(log_ps, labels))
          /\ pc' = "exp"
          /\ UNCHANGED <<grad_enabled>>
       \/ /\ Len(labels) # Len(log_ps)
          /\ Raise(TRUE)
          /\ UNCHANGED <<loss_accum, val_losses>>
    /\ UNCHANGED <<cell, data, e, iters, batch, training, no_grad_prev, requires_grad,
                   optim, temps, running_loss, accuracy_accum, stdout, inference,
                   ops, val_accs>>

\* ps = torch.exp(log_ps)   (cell 17)
ExpPs ==
    /\ pc = "exp"
    /\ ps' = ExpAll(log_ps)
    /\ pc' = "topk"
    /\ UNCHANGED <<cell, data, e, iters, batch, training, autograd, optim,
                   log_ps, loss, top_class, equals, accums, stdout, inference, observed>>

\* ps = torch.exp(model(images))   (cell 13)
ForwardExp ==
    /\ pc = "forward_exp"
    /\ \/ /\ images.w = InFeatures
          /\ \E m \in Masks(cell, training, Len(images.x)) :
                ps' = ExpAll(Forward(params, images.x, m))
          /\ pc' = "topk"
          /\ UNCHANGED <<grad_enabled>>
       \/ /\ images.w # InFeatures
          /\ Raise(TRUE)
          /\ UNCHANGED <<ps>>
    /\ UNCHANGED <<cell, data, e, iters, batch, training, no_grad_prev, requires_grad,
                   optim, log_ps, loss, top_class, equals, accums, stdout, inference,
                   observed>>

\* top_p, top_class = ps.topk(1, dim=1)
TopkStep ==
    /\ pc = "topk"
    /\ top_class' = Topk(ps)
    /\ pc' = "equals"
    /\ UNCHANGED <<cell, data, e, iters, batch, training, autograd, optim,
                   log_ps, loss, ps, equals, accums, stdout, inference, observed>>

\* equals = top_class == labels.view(*top_class.shape): the view raises when the
\* label count is not the prediction count.
EqualsStep ==
    /\ pc = "equals"
    /\ \/ /\ Len(labels) = Len(top_class)
          /\ equals' = Equals(top_class, labels)
          /\ pc' = "accuracy_accum"
          /\ UNCHANGED <<grad_enabled>>
       \/ /\ Len(labels) # Len(top_class)
          /\ Raise(TRUE)
          /\ UNCHANGED <<equals>>
    /\ UNCHANGED <<cell, data, e, iters, batch, training, no_grad_prev, requires_grad,
                   optim, log_ps, loss, ps, top_class, accums, stdout, inference,
                   observed>>

\* The examples of the batch whose predicted class is their label.
Matches(tc, ys) == Cardinality({i \in DOMAIN tc : tc[i] = ys[i]})

\* Mutant of AccuracyAccum: accuracy_accum = torch.mean(...), as line 499 does
\* with loss_accum.
AccuracyAccumOverwrites ==
    /\ pc = "accuracy_accum"
    /\ accuracy_accum' = Mean(equals)
    /\ val_accs' = Append(val_accs, <<Matches(top_class, labels), Len(labels)>>)
    /\ images' = None
    /\ labels' = None
    /\ log_ps' = None
    /\ requires_grad' = FALSE
    /\ ps' = None
    /\ top_class' = None
    /\ equals' = None
    /\ pc' = "test_for"
    /\ UNCHANGED <<cell, data, e, iters, training, grad_enabled, no_grad_prev, optim,
                   loss, running_loss, loss_accum, stdout, inference, ops, val_losses>>

\* and its bindings are forgotten.
AccuracyAccum ==
    /\ pc = "accuracy_accum"
    /\ accuracy_accum' = RatAdd(accuracy_accum, Mean(equals))
    /\ val_accs' = Append(val_accs, <<Matches(top_class, labels), Len(labels)>>)
    /\ images' = None
    /\ labels' = None
    /\ log_ps' = None
    /\ requires_grad' = FALSE
    /\ ps' = None
    /\ top_class' = None
    /\ equals' = None
    /\ pc' = "test_for"
    /\ UNCHANGED <<cell, data, e, iters, training, grad_enabled, no_grad_prev, optim,
                   loss, running_loss, loss_accum, stdout, inference, ops, val_losses>>

\* Mutant of ModelTrain: the call is left out.
ModelTrainSkipped ==
    /\ pc = "model_train"
    /\ pc' = "no_grad_exit"
    /\ UNCHANGED <<cell, data, e, iters, batch, training, autograd, optim, temps,
                   accums, stdout, inference, observed>>

\* model.train()
ModelTrain ==
    /\ pc = "model_train"
    /\ training' = TRUE
    /\ pc' = "no_grad_exit"
    /\ UNCHANGED <<cell, data, e, iters, batch, autograd, optim, temps,
                   accums, stdout, inference, observed>>

\* Mutant of NoGradExit: gradient tracking stays as the block set it.
NoGradExitKeepsOff ==
    /\ pc = "no_grad_exit"
    /\ pc' = "print_accuracy"
    /\ UNCHANGED <<cell, data, e, iters, batch, training, autograd,
                   optim, temps, accums, stdout, inference, observed>>

\* the with block ends: the context restores gradient tracking
NoGradExit ==
    /\ pc = "no_grad_exit"
    /\ grad_enabled' = no_grad_prev
    /\ pc' = "print_accuracy"
    /\ UNCHANGED <<cell, data, e, iters, batch, training, no_grad_prev, requires_grad,
                   optim, temps, accums, stdout, inference, observed>>

\* Mutant of PrintAccuracy: the quotient is taken as tensors are divided, and
\* with no batch a nan is printed.
PrintAccuracyNaN ==
    /\ pc = "print_accuracy"
    /\ stdout' = [stdout EXCEPT
            !.accuracy_lines = @ + 1,
            !.accuracy = IF LoaderLen(test_n) = 0 THEN "nan"
                         ELSE RatMul(RatDiv(accuracy_accum, LoaderLen(test_n)), 100)]
    /\ pc' = IF cell = 17 THEN "print_loss" ELSE "for_e"
    /\ e' = IF cell = 17 THEN e ELSE e + 1
    /\ UNCHANGED <<cell, data, iters, batch, training, autograd,
                   optim, temps, accums, inference, observed>>

\* print(f'Accuracy: {accuracy_accum / len(testloader) * 100}%'): with no batch
\* the division is 0 / 0 of Python numbers and raises ZeroDivisionError.
PrintAccuracy ==
    /\ pc = "print_accuracy"
    /\ \/ /\ LoaderLen(test_n) # 0
          /\ stdout' = [stdout EXCEPT
                !.accuracy_lines = @ + 1,
                !.accuracy = RatMul(RatDiv(accuracy_accum, LoaderLen(test_n)), 100)]
          /\ pc' = IF cell = 17 THEN "print_loss" ELSE "for_e"
          /\ e' = IF cell = 17 THEN e ELSE e + 1
          /\ UNCHANGED <<grad_enabled>>
       \/ /\ LoaderLen(test_n) = 0
          /\ Raise(FALSE)
          /\ UNCHANGED <<stdout, e>>
    /\ UNCHANGED <<cell, data, iters, batch, training, no_grad_prev, requires_grad,
                   optim, temps, accums, inference, observed>>

\* print(f'Loss: {loss_accum / len(testloader) * 100}')   (cell 17)
PrintLoss ==
    /\ pc = "print_loss"
    /\ stdout' = [stdout EXCEPT
            !.loss_lines = @ + 1,
            !.loss = RatMul(RatDiv(loss_accum, LoaderLen(test_n)), 100)]
    /\ e' = e + 1
    /\ pc' = "for_e"
    /\ UNCHANGED <<cell, data, iters, batch, training, autograd, optim, temps,
                   accums, inference, observed>>

----------------------------------------------------------------------------
(* Inference on one example, lines 547-562, on the model cell 17 trained. *)

\* The notebook goes on to cell 19, which has an output of its own and reads
\* none of the loop's accumulators: they are forgotten.
RunCell19 ==
    /\ cell = 17
    /\ pc = "done"
    /\ cell' = 19
    /\ stdout' = NoOutput
    /\ running_loss' = Zero
    /\ accuracy_accum' = Zero
    /\ loss_accum' = Zero
    /\ val_accs' = << >>
    /\ val_losses' = << >>
    /\ pc' = "inf_eval"
    /\ UNCHANGED <<data, e, iters, batch, training, autograd, optim, temps,
                   inference, ops>>

\* Mutant of InfEval: the call is left out.
InfEvalSkipped ==
    /\ pc = "inf_eval"
    /\ pc' = "inf_next"
    /\ UNCHANGED <<cell, data, e, iters, batch, training, autograd, optim, temps,
                   accums, stdout, inference, observed>>

\* model.eval()
InfEval ==
    /\ pc = "inf_eval"
    /\ training' = FALSE
    /\ pc' = "inf_next"
    /\ UNCHANGED <<cell, data, e, iters, batch, autograd, optim, temps,
                   accums, stdout, inference, observed>>

\* dataiter = iter(testloader); images, labels = dataiter.next()
InfNext ==
    /\ pc = "inf_next"
    /\ \/ /\ test_n > 0
          /\ \E b \in TestBatches(0) :
                /\ images' = [x |-> b.x, w |-> b.w]
                /\ labels' = b.y
          /\ test_pos' = NextSize(test_n, 0)
          /\ pc' = "inf_img"
          /\ UNCHANGED <<grad_enabled>>
       \/ /\ test_n = 0
          /\ Raise(FALSE)
          /\ UNCHANGED <<images, labels, test_pos>>
    /\ UNCHANGED <<cell, data, e, train_pos, training, no_grad_prev, requires_grad,
                   optim, temps, accums, stdout, inference, observed>>

\* img = images[0]; img = img.view(1, 784): the view raises on another width.
InfImg ==
    /\ pc = "inf_img"
    /\ \/ /\ images.w = InFeatures
          /\ img' = [x |-> <<images.x[1]>>, w |-> images.w]
          /\ pc' = "inf_no_grad"
          /\ UNCHANGED <<grad_enabled>>
       \/ /\ images.w # InFeatures
          /\ Raise(FALSE)
          /\ UNCHANGED <<img>>
    /\ UNCHANGED <<cell, data, e, iters, batch, training, no_grad_prev, requires_grad,
                   optim, temps, accums, stdout, output, shown, observed>>

\* with torch.no_grad(): the context is entered
InfNoGrad ==
    /\ pc = "inf_no_grad"
    /\ no_grad_prev' = grad_enabled
    /\ grad_enabled' = FALSE
    /\ pc' = "inf_forward"
    /\ UNCHANGED <<cell, data, e, iters, batch, training, requires_grad, optim, temps,
                   accums, stdout, inference, observed>>

\* output = model.forward(img)
InfForward ==
    /\ pc = "inf_forward"
    /\ \E m \in Masks(17, training, 1) : output' = Forward(params, img.x, m)
    /\ pc' = "inf_no_grad_exit"
    /\ UNCHANGED <<cell, data, e, iters, batch, training, autograd, optim, temps,
                   accums, stdout, img, shown, observed>>

\* the with block ends
InfNoGradExit ==
    /\ pc = "inf_no_grad_exit"
    /\ grad_enabled' = no_grad_prev
    /\ pc' = "inf_exp"
    /\ UNCHANGED <<cell, data, e, iters, batch, training, no_grad_prev, requires_grad,
                   optim, temps, accums, stdout, inference, observed>>

\* ps = torch.exp(output)
InfExp ==
    /\ pc = "inf_exp"
    /\ ps' = ExpAll(output)
    /\ pc' = "inf_view"
    /\ UNCHANGED <<cell, data, e, iters, batch, training, autograd, optim,
                   log_ps, loss, top_class, equals, accums, stdout, inference, observed>>

\* helper.view_classify(img.view(1, 28, 28), ps, version='Fashion')
ViewClassify ==
    /\ pc = "inf_view"
    /\ shown' = <<img, ps>>
    /\ pc' = "done"
    /\ UNCHANGED <<cell, data, e, iters, batch, training, autograd, optim, temps,
                   accums, stdout, img, output, observed>>

----------------------------------------------------------------------------

Next ==
    \/ ForEpoch \/ ForEpochDone \/ TrainIter \/ TrainNext \/ TrainExhausted
    \/ ZeroGrad \/ TrainForward \/ TrainCriterion \/ Backward \/ OptimizerStep
    \/ RunningLoss
    \/ Else \/ NoGradEnter \/ ModelEval \/ TestIter \/ TestNext \/ TestExhausted
    \/ ValForward \/ ValCriterion \/ ExpPs \/ ForwardExp \/ TopkStep \/ EqualsStep
    \/ AccuracyAccum \/ ModelTrain \/ NoGradExit \/ PrintAccuracy \/ PrintLoss
    \/ RunCell19 \/ InfEval \/ InfNext \/ InfImg \/ InfNoGrad \/ InfForward
    \/ InfNoGradExit \/ InfExp \/ ViewClassify

Spec == Init /\ [][Next]_vars

\* A fixed validation source: testloader yields the same batches, in the same
\* order, in every epoch.  With an empty trainset two validation passes follow
\* each other with no training step in between.
InitFixed ==
    /\ InitWith([n \in 0 .. MaxTest |-> FixedSources(n)])
    /\ train_n <= 1

SpecFixed == InitFixed /\ [][Next]_vars

\* A testset of up to two full batches, so that a validation pass may have two
\* batches of the same size; the trainset has at most one example.
InitEven ==
    /\ train_n \in 0 .. 1
    /\ test_n \in 0 .. (2 * batch_size)
    /\ fixed = << >>
    /\ Start

SpecEven == InitEven /\ [][Next]_vars

\* The notebook's kernel runs a cell statement after statement until the cell
\* ends or raises, and goes on to the next cell: a statement that can run does.
SpecLive == Init /\ [][Next]_vars /\ WF_vars(Next)

----------------------------------------------------------------------------
(* The statements of the training body, in the order the loop runs them. *)

TrainOrder == <<"zero_grad", "forward", "criterion", "backward", "step", "running_loss">>

TrainPcs == {TrainOrder[i] : i \in DOMAIN TrainOrder}

\* The statements cell 17 runs between model.eval() and model.train().
EvalRegion17 ==
    {"test_iter", "test_for", "val_forward", "val_criterion", "exp", "topk", "equals",
     "accuracy_accum", "model_train"}

\* The statements that process a validation minibatch.
ValPcs == {"val_forward", "val_criterion", "forward_exp", "exp", "topk", "equals",
           "accuracy_accum"}

\* The statements inside `with torch.no_grad()` in cells 13 and 17.
NoGradRegion == ValPcs \cup {"model_eval", "test_iter", "test_for", "model_train",
                             "no_grad_exit"}

\* The statements of the else branch, up to the last print.
ValRegion == NoGradRegion \cup {"else", "no_grad", "print_accuracy", "print_loss"}

Driver == cell \in {13, 17}

\* len(trainloader)
T == LoaderLen(train_n)

----------------------------------------------------------------------------
(* C1.  In the extended driver the mode flag is Training whenever an epoch  *)
(* starts and whenever an epoch ends: at the head of the epoch loop, which  *)
(* a run reaches before its first epoch and after every epoch that did not  *)
(* fail, the model is in Training mode.                                     *)
C1_TrainingAtEpochBoundaries ==
    (cell = 17 /\ pc \in {"for_e", "train_iter", "done"}) => training

C1_Witness ==
    /\ cell = 17
    /\ pc = "for_e"
    /\ e = epochs
    /\ test_n = MaxTest
    /\ train_n = MaxTrain
    /\ training

(* C2.  In the extended driver, in every state of a run that has not failed, *)
(* the mode flag is Evaluation exactly between model.eval() and              *)
(* model.train(): Evaluation while every validation minibatch is processed,  *)
(* Training while every training minibatch is processed, set before the      *)
(* first validation batch and set back only after the last one.              *)
C2_ModeFollowsThePass ==
    (cell = 17 /\ pc # "error") =>
        /\ (~training) <=> (pc \in EvalRegion17)
        /\ pc \in ValPcs => ~training
        /\ pc \in TrainPcs => training
        /\ (pc = "model_train") => test_pos = test_n

C2_Witness ==
    /\ cell = 17
    /\ pc = "val_forward"
    /\ ~training
    /\ e = 1
    /\ train_n > 0
    /\ test_pos = test_n
    /\ test_n > batch_size

(* C3.  In both drivers gradient tracking is off while a validation          *)
(* minibatch is processed (and everywhere inside the no-grad block), and on  *)
(* while a training minibatch is processed: the forward pass of every        *)
(* training minibatch records its graph.                                     *)
C3_GradTracking ==
    Driver =>
        /\ pc \in NoGradRegion => ~grad_enabled
        /\ pc \in TrainPcs \cup {"train_iter", "train_for"} => grad_enabled
        /\ pc \in {"criterion", "backward"} => requires_grad

C3_Witness ==
    /\ Driver
    /\ pc = "backward"
    /\ e = 1
    /\ test_n > 0
    /\ grad_enabled
    /\ requires_grad

(* C4.  Within every epoch training comes before validation: when any       *)
(* statement of the else branch runs the training iterator is exhausted and *)
(* the epoch's accuracy is not printed yet; when a training minibatch is     *)
(* processed no validation minibatch of the epoch has been, and the          *)
(* accuracy of every earlier epoch is printed; and every finished epoch has  *)
(* run its validation pass over the whole validation source.                 *)
C4_TrainThenValidate ==
    (Driver /\ pc # "error") =>
        /\ pc \in ValRegion =>
            /\ train_pos = train_n
            /\ stdout.accuracy_lines = IF pc = "print_loss" THEN e + 1 ELSE e
        /\ pc \in TrainPcs \cup {"train_iter", "train_for"} =>
            /\ val_accs = << >>
            /\ stdout.accuracy_lines = e
        /\ pc \in {"for_e", "done"} =>
            /\ stdout.accuracy_lines = e
            /\ e > 0 => Len(val_accs) = LoaderLen(test_n) /\ test_pos = test_n

C4_Witness ==
    /\ cell = 13
    /\ pc = "zero_grad"
    /\ e = 1
    /\ stdout.accuracy_lines = 1
    /\ train_pos = train_n
    /\ train_n > batch_size
    /\ test_n > batch_size

\* The mean of the per-batch accuracies observed in the epoch, times 100.
ObservedAccuracy == RatMul(RatDiv(RatSum(val_accs), Len(val_accs)), 100)

\* The states in which the epoch's accuracy line is the last line but for Loss.
Reported ==
    /\ Driver
    /\ pc \in {"print_loss", "for_e", "done"}
    /\ stdout.accuracy_lines > 0

(* C5.  The accuracy printed for an epoch is the sum, over the validation   *)
(* batches of that epoch only, of matches / batch size, divided by the      *)
(* number of validation batches iterated, which is the divisor the code     *)
(* uses (len(testloader)).                                                  *)
C5_AccuracyIsEpochMean ==
    Reported =>
        /\ Len(val_accs) = LoaderLen(test_n)
        /\ stdout.accuracy = ObservedAccuracy

C5_Witness ==
    /\ Reported
    /\ stdout.accuracy_lines = 2
    /\ Len(val_accs) = 2
    /\ val_accs[1] = <<1, 2>>
    /\ val_accs[2] = <<1, 1>>
    /\ stdout.accuracy = <<75, 1>>

(* C6.  Every accuracy printed, before its scaling by 100, lies in [0, 1].  *)
C6_AccuracyInUnitInterval ==
    (Driver /\ stdout.accuracy_lines > 0) =>
        /\ RatLeq(Zero, RatDiv(stdout.accuracy, 100))
        /\ RatLeq(RatDiv(stdout.accuracy, 100), <<1, 1>>)

C6_Witness ==
    /\ Driver
    /\ stdout.accuracy_lines > 0
    /\ test_n = batch_size + 1
    /\ stdout.accuracy = <<100, 1>>

\* The states in which the epoch's Loss line is the last line printed.
LossReported ==
    /\ cell = 17
    /\ pc \in {"for_e", "done"}
    /\ stdout.loss_lines > 0

(* C7, as claimed.  The loss printed for an epoch is the loss of the last   *)
(* validation batch of the epoch, times 100.                                 *)
C7_LossIsLastBatchTimes100 ==
    LossReported => stdout.loss = RatMul(val_losses[Len(val_losses)], 100)

(* C7, amended.  The loss printed for an epoch is the loss of the last      *)
(* validation batch of the epoch, divided by the number of validation       *)
(* batches, times 100; no earlier batch's loss enters it.                    *)
C7_LossIsLastBatchOverLen ==
    LossReported =>
        stdout.loss = RatMul(RatDiv(val_losses[Len(val_losses)], Len(val_losses)), 100)

C7_Witness ==
    /\ LossReported
    /\ Len(val_losses) = 2
    /\ val_losses[1] = <<1, 2>>
    /\ val_losses[2] = <<1, 1>>
    /\ stdout.loss = <<50, 1>>

(* C9.  Every training minibatch gets, once each and in this order,         *)
(* zero_grad, forward, criterion, backward, optimizer step, running_loss;   *)
(* the step is applied to the gradient of the current batch alone; and the  *)
(* optimizer has applied one step per minibatch processed: e * T at the     *)
(* head of epoch e, epochs * T at the end.                                   *)
C9_TrainingBody ==
    (Driver /\ pc # "error") =>
        /\ \A i \in DOMAIN TrainOrder :
            pc = TrainOrder[i] => ops = SubSeq(TrainOrder, 1, i - 1)
        /\ (pc = "train_for" /\ train_pos > 0) => ops = TrainOrder
        /\ pc = "step" => grad = << <<e, Yielded(train_pos)>> >>
        /\ pc \in {"for_e", "train_iter"} => opt_step = e * T
        /\ pc = "train_for" => opt_step = e * T + Yielded(train_pos)
        /\ pc = "running_loss" => opt_step = e * T + Yielded(train_pos)
        /\ pc = "done" => opt_step = epochs * T

C9_Witness ==
    /\ cell = 13
    /\ pc = "done"
    /\ train_n = MaxTrain
    /\ opt_step = epochs * T
    /\ T > 1
    /\ ops = TrainOrder

(* C8.  With a fixed validation source and no training step in between,   *)
(* two validation passes in a row print the same accuracy: no statement of  *)
(* the else branch changes the parameters, the optimizer or the gradients,  *)
(* every pass starts in Training mode with gradient tracking on, and the    *)
(* accuracy a pass prints is the accuracy the pass before it printed.       *)
C8_ValidationRepeats ==
    [][/\ (Driver /\ pc \in ValRegion) =>
            /\ params' = params
            /\ opt_step' = opt_step
            /\ grad' = grad
       /\ (Driver /\ pc = "else") => (training /\ grad_enabled)
       /\ (/\ Driver
           /\ pc = "print_accuracy"
           /\ pc' # "error"
           /\ train_n = 0
           /\ fixed # << >>
           /\ stdout.accuracy_lines > 0) => stdout'.accuracy = stdout.accuracy]_vars

C8_Witness ==
    /\ cell = 17
    /\ pc = "for_e"
    /\ train_n = 0
    /\ test_n = MaxTest
    /\ fixed # << >>
    /\ stdout.accuracy_lines = 2
    /\ stdout.accuracy # Zero
    /\ stdout.accuracy # <<100, 1>>

\* The statements of cell 19 after its model.eval(), up to the visualizer.
InfPcs == {"inf_next", "inf_img", "inf_no_grad", "inf_forward", "inf_no_grad_exit",
           "inf_exp", "inf_view"}

(* C10, as claimed.  No optimizer step is applied in Evaluation mode, and   *)
(* the flag is Evaluation only during a validation pass or the inference    *)
(* pass: when the pass has ended the flag is Training again.                 *)
C10_EvaluationOnlyDuringAPass ==
    /\ pc = "step" => training
    /\ (~training /\ pc # "error") =>
        \/ cell = 17 /\ pc \in EvalRegion17
        \/ cell = 19 /\ pc \in InfPcs

(* C10, amended.  The flag starts as Training; no optimizer step is applied *)
(* in Evaluation mode; in a run that has not failed the flag is Evaluation  *)
(* exactly during the extended driver's validation pass and from cell 19's  *)
(* model.eval() on: the inference procedure does not set it back, so the    *)
(* flag is Evaluation after the procedure has finished.                      *)
C10_EvaluationLeftOnAfterInference ==
    /\ pc = "step" => training
    /\ (pc = "for_e" /\ e = 0) => training
    /\ pc # "error" =>
        ((~training) <=> \/ cell = 17 /\ pc \in EvalRegion17
                         \/ cell = 19 /\ pc \in InfPcs \cup {"done"})

C10_Witness ==
    /\ cell = 19
    /\ pc = "done"
    /\ ~training
    /\ opt_step > 0
    /\ shown # None

\* The statements of cell 19, in the order the cell runs them.
InfOrder == <<"inf_eval", "inf_next", "inf_img", "inf_no_grad", "inf_forward",
              "inf_no_grad_exit", "inf_exp", "inf_view", "done">>

(* C11.  The inference procedure runs its statements in this order: the     *)
(* mode flag is set to Evaluation, gradient tracking is disabled, the one   *)
(* example is forwarded with tracking off and the flag Evaluation, the      *)
(* output is exponentiated, and the image and the distribution are handed   *)
(* to the visualizer.  No statement of it applies an optimizer step or      *)
(* changes a parameter or a gradient.                                        *)
C11_InferenceOrder ==
    [][cell = 19 =>
        /\ \A i \in 1 .. (Len(InfOrder) - 1) :
            pc = InfOrder[i] => pc' \in {InfOrder[i + 1], "error"}
        /\ pc = "inf_eval" => ~training'
        /\ pc = "inf_no_grad" => (~training /\ ~grad_enabled')
        /\ pc = "inf_forward" =>
            /\ ~training /\ ~grad_enabled
            /\ Len(img.x) = 1
            /\ output' = Forward(params, img.x, <<FALSE>>)
        /\ pc = "inf_exp" => ps' = ExpAll(output)
        /\ pc = "inf_view" => shown' = <<img, ExpAll(output)>>
        /\ params' = params
        /\ opt_step' = opt_step
        /\ grad' = grad]_vars

C11_Witness ==
    /\ cell = 19
    /\ pc = "done"
    /\ shown = <<img, ExpAll(output)>>
    /\ output = Forward(params, img.x, <<FALSE>>)
    /\ opt_step = epochs * T
    /\ T > 1

(* C12.  With a validation source that yields no batch, the first epoch's   *)
(* accuracy print divides by zero and raises: the cell ends there with an   *)
(* error, in its first epoch, and prints no accuracy, nan or other, and no  *)
(* loss.                                                                     *)
C12_EmptyValidationFails ==
    [][(Driver /\ test_n = 0) =>
        /\ pc = "print_accuracy" => pc' = "error"
        /\ pc' \notin {"print_loss", "done"}
        /\ e' = 0
        /\ stdout' = NoOutput]_vars

C12_Witness ==
    /\ Driver
    /\ test_n = 0
    /\ pc = "error"
    /\ accuracy_accum = Zero
    /\ train_n = MaxTrain
    /\ opt_step = T
    /\ stdout = NoOutput

(* C13.  The drivers catch nothing.  A training or validation minibatch the *)
(* model cannot take (images of another width) or whose labels do not match *)
(* the predictions in number makes the statement that meets it raise; the   *)
(* raise ends the cell at that batch, with no optimizer step, no change of  *)
(* the parameters, no further batch drawn and no line printed, the accuracy *)
(* lines printed being those of the epochs before; and once the cell has    *)
(* ended in an error none of its statements runs again.                     *)
C13_FailurePropagates ==
    [][Driver =>
        /\ pc # "error"
        /\ (pc \in {"forward", "val_forward", "forward_exp"} /\ images.w # InFeatures)
                => pc' = "error"
        /\ (pc \in {"criterion", "val_criterion"} /\ Len(labels) # Len(log_ps))
                => pc' = "error"
        /\ (pc = "equals" /\ Len(labels) # Len(top_class)) => pc' = "error"
        /\ pc' = "error" =>
            /\ opt_step' = opt_step
            /\ params' = params
            /\ train_pos' = train_pos
            /\ test_pos' = test_pos
            /\ e' = e
            /\ stdout' = stdout
            /\ stdout.accuracy_lines = e]_vars

C13_Witness ==
    /\ cell = 13
    /\ pc = "error"
    /\ e = 1
    /\ stdout.accuracy_lines = 1
    /\ images.w # InFeatures
    /\ train_pos < train_n
    /\ opt_step = T

\* The states in which top_class holds the predictions for the batch in ps.
Predicted == Driver /\ pc \in {"equals", "accuracy_accum"}

C15_EvaluationDuringValidation13 ==
    (cell = 13 /\ pc # "error") =>
        /\ pc \in ValPcs => ~training
        /\ pc \in TrainPcs \cup {"train_iter", "train_for"} => training

\* The cell ended in an error on the minibatch it holds.
FailedOnBatch ==
    /\ Driver
    /\ pc = "error"
    /\ images # None
    /\ (images.w # InFeatures \/ Len(labels) # Len(images.x))

\* The cell ran to its end.
Finished ==
    /\ Driver
    /\ pc = "done"
    /\ e = epochs
    /\ stdout.accuracy_lines = epochs

(* C16, as claimed.  Unless a minibatch fails, the driver comes to its end  *)
(* after epochs epochs with one accuracy line printed per epoch.            *)
C16_EndsUnlessABatchFails == <>(FailedOnBatch \/ Finished)

\* The statements of a training cell, in the order one epoch meets them.
EpochOrder ==
    <<"for_e", "train_iter", "train_for", "zero_grad", "forward", "criterion",
      "backward", "step", "running_loss", "else", "no_grad", "model_eval",
      "test_iter", "test_for", "val_forward", "val_criterion", "forward_exp", "exp",
      "topk", "equals", "accuracy_accum", "model_train", "no_grad_exit",
      "print_accuracy", "print_loss">>

Index(order, p) == CHOOSE i \in DOMAIN order : order[i] = p

\* The place of every statement in its cell.
EpochIndex == [p \in {EpochOrder[i] : i \in DOMAIN EpochOrder} |-> Index(EpochOrder, p)]

InfIndex == [p \in {InfOrder[i] : i \in DOMAIN InfOrder} |-> Index(InfOrder, p)]

\* The training batches the epoch has not finished.
TrainLeft ==
    IF pc \in {"for_e", "train_iter"} THEN T
    ELSE IF pc = "train_for" THEN T - Yielded(train_pos)
    ELSE IF pc \in TrainPcs THEN T - Yielded(train_pos) + 1
    ELSE 0

\* The validation batches the epoch has not finished.
TestLeft ==
    IF EpochIndex[pc] < EpochIndex["test_for"] THEN LoaderLen(test_n)
    ELSE IF pc = "test_for" THEN LoaderLen(test_n) - Yielded(test_pos)
    ELSE IF pc \in ValPcs THEN LoaderLen(test_n) - Yielded(test_pos) + 1
    ELSE 0

\* A bound on the statements still to run: those of cell 19, those left in the
\* epoch, and those of the epochs to come.
Measure ==
    IF pc = "error" THEN 0
    ELSE IF cell = 19 THEN Len(InfOrder) - InfIndex[pc]
    ELSE IF pc = "done" THEN Len(InfOrder)
    ELSE Len(InfOrder) + 1
         + (Len(EpochOrder) - EpochIndex[pc])
         + (TrainLeft + TestLeft) * Len(EpochOrder)
         + (epochs - e) * (T + LoaderLen(test_n) + 1) * Len(EpochOrder)

\* The states in which the notebook has nothing more to run.
Terminal == pc = "error" \/ (cell \in {13, 19} /\ pc = "done")

(* C16, amended.  Unless a minibatch fails or the validation source yields  *)
(* no batch, the driver comes to its end after epochs epochs with one       *)
(* accuracy line printed per epoch.  At the head of the epoch loop, as at   *)
(* the end, every finished epoch has printed one accuracy line, has taken   *)
(* one optimizer step per training batch and has left both iterators        *)
(* exhausted, every validation example having been visited once; a driver   *)
(* ends in an error only on a failing batch or an empty validation source;  *)
(* and it does end: every statement lowers a bound on the statements still  *)
(* to run, and a statement can run in every state but the last.             *)
C16_EndsAfterEpochs ==
    /\ []((Driver /\ pc \in {"for_e", "done"}) =>
            /\ e <= epochs
            /\ pc = "done" => Finished
            /\ stdout.accuracy_lines = e
            /\ opt_step = e * T
            /\ e > 0 =>
                /\ train_pos = train_n
                /\ test_pos = test_n
                /\ Len(val_accs) = LoaderLen(test_n)
                /\ SumSeq([i \in DOMAIN val_accs |-> val_accs[i][2]]) = test_n)
    /\ []((Driver /\ pc = "error") => (FailedOnBatch \/ test_n = 0))
    /\ [](~Terminal => ENABLED Next)
    /\ [][Measure' < Measure /\ Measure' >= 0]_vars

C16_Witness ==
    /\ Finished
    /\ train_n = MaxTrain
    /\ test_n = MaxTest
    /\ opt_step = epochs * T
    /\ Len(val_accs) = LoaderLen(MaxTest)

(* C17.  When a validation minibatch fails in the extended driver, the      *)
(* error leaves the no-grad block, whose exit turns gradient tracking back  *)
(* on, and skips model.train(): the cell ends with gradient tracking on and *)
(* the mode flag Evaluation.  However the cell fails, it ends with gradient *)
(* tracking on.                                                              *)
C17_FailedValidationLeavesEvaluation ==
    [][cell = 17 =>
        /\ (pc \in ValPcs /\ pc' = "error") =>
            /\ ~grad_enabled /\ grad_enabled'
            /\ ~training /\ ~training'
        /\ pc' = "error" => grad_enabled'
        /\ pc' = "error" => (training' <=> pc \notin ValPcs)]_vars

C17_Witness ==
    /\ cell = 17
    /\ pc = "error"
    /\ FailedOnBatch
    /\ ~training
    /\ grad_enabled
    /\ e = 1
    /\ stdout.accuracy_lines = 1
    /\ test_pos = test_n
    /\ test_n > batch_size

\* All the validation batches of the epoch have the same number of examples.
EqualSizes == \A i, j \in DOMAIN val_accs : val_accs[i][2] = val_accs[j][2]

\* The matches and the examples of the epoch's validation pass.
TotalMatches == SumSeq([i \in DOMAIN val_accs |-> val_accs[i][1]])

TotalExamples == SumSeq([i \in DOMAIN val_accs |-> val_accs[i][2]])

(* C18.  When all the validation batches of an epoch have the same size,    *)
(* the accuracy printed for the epoch is the matches of the whole pass      *)
(* divided by its examples, times 100: it depends on the totals alone, not  *)
(* on which batch an example fell into.                                      *)
C18_AccuracyIsOverallFraction ==
    (Reported /\ EqualSizes) =>
        /\ TotalExamples = test_n
        /\ stdout.accuracy = Rat(100 * TotalMatches, TotalExamples)

C18_Witness ==
    /\ Reported
    /\ EqualSizes
    /\ stdout.accuracy_lines = 2
    /\ Len(val_accs) = 2
    /\ val_accs[1] = <<batch_size, batch_size>>
    /\ val_accs[2] = <<1, batch_size>>
    /\ stdout.accuracy = Rat(100 * (batch_size + 1), 2 * batch_size)

============================================================================
